---- MODULE Spec2Model ----
(***************************************************************************)
(* A model of the VSCode Dock extension: the DockProvider item store       *)
(* (src/src/dockProvider.ts) and the command handlers that activate()      *)
(* registers (src/unnamed/part_000).                                       *)
(*                                                                         *)
(* Every `await` of the source is a suspension point.  A handler runs      *)
(* from one suspension point to the next in one step; consecutive prompts  *)
(* of one function between which the function touches no field of the      *)
(* provider are answered in the same step.  The handlers registered by     *)
(* activate() start an operation and return without awaiting it, so up to  *)
(* MaxOps operations can be suspended at once.                             *)
(*                                                                         *)
(* JavaScript objects have identity: every DockItem carries a `ref`, the   *)
(* number of the object.  An operation holds the refs of the objects it    *)
(* was given; an object that is no longer in dockItems is detached and     *)
(* writes to it do not reach the store.                                    *)
(*                                                                         *)
(* The host is modelled by what the source fixes and no more: a prompt can *)
(* be answered or cancelled in any order with the prompts of the other     *)
(* pending operations, and config.update stores the list as it is when     *)
(* saveConfiguration is called; a failing configuration write is not       *)
(* modelled.  Settings do not change while the extension runs.             *)
(* showItemContextMenu and removeItem have no caller and are left out.     *)
(***************************************************************************)
EXTENDS Integers, Sequences, FiniteSets, Bags, TLC

VARIABLES
    activated,       \* activate() has run
    dockItems,       \* DockProvider.dockItems
    statusBarItems,  \* DockProvider.statusBarItems: the entries of the last rendering
    visible,         \* the status bar of the window: the entries created and not disposed
    persisted,       \* the 'items' value of the 'vscode-dock' configuration
    settings,        \* maxItems / showIcons / showTitles of the configuration
    ops,             \* the operations in flight, each suspended at an await
    clock,           \* Date.now()
    alloc,           \* next: the number of the next object; commands: the commands invoked so far
    last             \* what the last step did: handler, answers, notice

vars == <<activated, dockItems, statusBarItems, visible, persisted, settings, ops,
          clock, alloc, last>>

---------------------------------------------------------------------------
(* Bounds of the model *)

MaxOps == 2        \* operations in flight at once
MaxClock == 2      \* the clock takes the values 1..MaxClock
MaxCommands == 2   \* commands the user invokes in one run

---------------------------------------------------------------------------
(* Values *)

Undef == "undefined"          \* JavaScript undefined: an absent field, a cancelled prompt
NotShown == "<not shown>"     \* a prompt the handler never reached

Truthy(s) == s # Undef /\ s # ""

\* a || b of JavaScript on strings
OrElse(a, b) == IF Truthy(a) THEN a ELSE b

ItemTypes == {"app", "file", "folder", "link", "folder-group"}

NoItem ==
    [ref |-> 0, id |-> Undef, type |-> Undef, name |-> Undef, title |-> Undef,
     path |-> Undef, url |-> Undef, icon |-> Undef, color |-> Undef,
     command |-> Undef, hasChildren |-> FALSE, children |-> <<>>]

\* A faulty getDefaultItems with the second and third default exchanged.
getDefaultItemsGitSecond(base) ==
    << [NoItem EXCEPT !.ref = base + 1, !.id = "terminal", !.type = "app",
            !.name = "Terminal", !.icon = "$(terminal)",
            !.command = "workbench.action.terminal.new"],
       [NoItem EXCEPT !.ref = base + 2, !.id = "git", !.type = "app",
            !.name = "Git", !.icon = "$(git-branch)",
            !.command = "workbench.view.scm"],
       [NoItem EXCEPT !.ref = base + 3, !.id = "explorer", !.type = "app",
            !.name = "Explorer", !.icon = "$(files)",
            !.command = "workbench.view.explorer"],
       [NoItem EXCEPT !.ref = base + 4, !.id = "extensions", !.type = "app",
            !.name = "Extensions", !.icon = "$(extensions)",
            !.command = "workbench.view.extensions"] >>

getDefaultItems(base) ==
    << [NoItem EXCEPT !.ref = base + 1, !.id = "terminal", !.type = "app",
            !.name = "Terminal", !.icon = "$(terminal)",
            !.command = "workbench.action.terminal.new"],
       [NoItem EXCEPT !.ref = base + 2, !.id = "explorer", !.type = "app",
            !.name = "Explorer", !.icon = "$(files)",
            !.command = "workbench.view.explorer"],
       [NoItem EXCEPT !.ref = base + 3, !.id = "git", !.type = "app",
            !.name = "Git", !.icon = "$(git-branch)",
            !.command = "workbench.view.scm"],
       [NoItem EXCEPT !.ref = base + 4, !.id = "extensions", !.type = "app",
            !.name = "Extensions", !.icon = "$(extensions)",
            !.command = "workbench.view.extensions"] >>

RECURSIVE SumLen(_, _)
SumLen(list, n) ==
    IF n = 0 THEN 0 ELSE SumLen(list, n - 1) + Len(list[n].children)

\* The number of objects in a list: its items and their children.
ObjectCount(list) == Len(list) + SumLen(list, Len(list))

\* JSON serialisation of the list handed to config.update: object identity is
\* lost, undefined fields are dropped (they read back as undefined).
Serialize(list) ==
    [i \in DOMAIN list |->
        [list[i] EXCEPT !.ref = 0,
                        !.children = [j \in DOMAIN @ |-> [@[j] EXCEPT !.ref = 0]]]]

\* A faulty read that loses the children arrays.
DeserializeFlat(list, base) ==
    [i \in DOMAIN list |-> [list[i] EXCEPT !.ref = base + i, !.children = <<>>]]

\* config.get: the stored value becomes fresh objects.
Deserialize(list, base) ==
    [i \in DOMAIN list |->
        [list[i] EXCEPT !.ref = base + i,
                        !.children = [j \in DOMAIN @ |->
                            [@[j] EXCEPT !.ref = base + Len(list) + SumLen(list, i - 1) + j]]]]

---------------------------------------------------------------------------
(* Lookups *)

\* Array.prototype.findIndex(i => i.id === id), 1-based; 0 stands for -1.
FindIndex(list, id) ==
    IF \E i \in DOMAIN list : list[i].id = id
    THEN CHOOSE i \in DOMAIN list :
            /\ list[i].id = id
            /\ \A j \in DOMAIN list : list[j].id = id => i <= j
    ELSE 0

TopRefs(list) == {list[i].ref : i \in DOMAIN list}

ChildRefs(list) == UNION {{list[i].children[j].ref : j \in DOMAIN list[i].children} : i \in DOMAIN list}

Attached(list, r) == r \in TopRefs(list) \cup ChildRefs(list)

\* The object with number r, wherever it is in the list.
Deref(list, r) ==
    IF r \in TopRefs(list)
    THEN list[CHOOSE i \in DOMAIN list : list[i].ref = r]
    ELSE IF r \in ChildRefs(list)
    THEN LET i == CHOOSE i \in DOMAIN list : \E j \in DOMAIN list[i].children : list[i].children[j].ref = r
             j == CHOOSE j \in DOMAIN list[i].children : list[i].children[j].ref = r
         IN list[i].children[j]
    ELSE NoItem

\* A write through a reference: the object numbered r becomes `new`; a
\* detached object is not part of the list and the list is unchanged.
UpdateRef(list, r, new) ==
    [i \in DOMAIN list |->
        IF list[i].ref = r
        THEN new
        ELSE [list[i] EXCEPT !.children =
                [j \in DOMAIN @ |-> IF @[j].ref = r THEN new ELSE @[j]]]]

\* Array.prototype.splice(index, 1)
Splice(list, index) ==
    [i \in 1..(Len(list) - 1) |-> IF i < index THEN list[i] ELSE list[i + 1]]

\* [a[i], a[j]] = [a[j], a[i]]
Swap(list, i, j) ==
    [k \in DOMAIN list |-> IF k = i THEN list[j] ELSE IF k = j THEN list[i] ELSE list[k]]

---------------------------------------------------------------------------
(* The projection: createDockItems *)

getColorIcon(color) ==
    CASE color = "#007ACC" -> "(blue)"
      [] color = "#28A745" -> "(green)"
      [] color = "#DC3545" -> "(red)"
      [] color = "#FD7E14" -> "(orange)"
      [] color = "#6F42C1" -> "(purple)"
      [] color = "#E83E8C" -> "(pink)"
      [] color = "#FFC107" -> "(yellow)"
      [] color = "#20C997" -> "(teal)"
      [] OTHER -> "(white)"

getColorName(color) ==
    CASE color = "#007ACC" -> "Blue"
      [] color = "#28A745" -> "Green"
      [] color = "#DC3545" -> "Red"
      [] color = "#FD7E14" -> "Orange"
      [] color = "#6F42C1" -> "Purple"
      [] color = "#E83E8C" -> "Pink"
      [] color = "#FFC107" -> "Yellow"
      [] color = "#20C997" -> "Teal"
      [] OTHER -> "Custom"

NoCommand == [command |-> Undef, title |-> Undef, argument |-> Undef, item |-> 0, id |-> Undef]

getCommandForItem(item) ==
    CASE item.type = "app" /\ Truthy(item.command) ->
            [command |-> item.command, title |-> item.name, argument |-> Undef, item |-> 0, id |-> Undef]
      [] item.type = "file" /\ Truthy(item.path) ->
            [command |-> "vscode.open", title |-> item.name, argument |-> item.path, item |-> 0, id |-> Undef]
      [] item.type = "folder" /\ Truthy(item.path) ->
            [command |-> "vscode.openFolder", title |-> item.name, argument |-> item.path, item |-> 0, id |-> Undef]
      [] item.type = "link" /\ Truthy(item.url) ->
            [command |-> "vscode.open", title |-> item.name, argument |-> item.url, item |-> 0, id |-> Undef]
      [] OTHER -> NoCommand

MaxNameLength == 20
FirstPriority == 1000
AddButtonPriority == 500

\* A faulty label that does not test item.icon.
displayTextAnyIcon(item, cfg) ==
    IF cfg.showIcons
    THEN (IF Truthy(item.color) THEN getColorIcon(item.color) \o " " ELSE "")
         \o item.icon
         \o (IF cfg.showTitles /\ Truthy(item.name) /\ Len(item.name) <= MaxNameLength
             THEN " " \o item.name ELSE "")
    ELSE item.name

displayText(item, cfg) ==
    IF cfg.showIcons /\ Truthy(item.icon)
    THEN (IF Truthy(item.color) THEN getColorIcon(item.color) \o " " ELSE "")
         \o item.icon
         \o (IF cfg.showTitles /\ Truthy(item.name) /\ Len(item.name) <= MaxNameLength
             THEN " " \o item.name ELSE "")
    ELSE item.name

tooltipText(item) ==
    OrElse(item.title, item.name)
    \o (IF Truthy(item.color) THEN " (" \o getColorName(item.color) \o ")" ELSE "")

\* One status bar entry of an item; index is the 0-based position in the slice.
StatusBarItem(item, index, cfg) ==
    [priority |-> FirstPriority - index,
     text |-> displayText(item, cfg),
     tooltip |-> tooltipText(item),
     command |-> IF item.type = "folder-group" /\ item.hasChildren
                 THEN [command |-> "vscode-dock.showFolderMenu", title |-> item.name,
                       argument |-> Undef, item |-> item.ref, id |-> item.id]
                 ELSE getCommandForItem(item)]

addButton ==
    [priority |-> AddButtonPriority, text |-> "$(plus)", tooltip |-> "Add item to dock",
     command |-> [command |-> "vscode-dock.addItem", title |-> Undef, argument |-> Undef, item |-> 0, id |-> Undef]]

\* The length of Array.prototype.slice(0, end) of a list of length n.
SliceEnd(n, end) ==
    IF end < 0 THEN (IF n + end < 0 THEN 0 ELSE n + end)
    ELSE IF end > n THEN n ELSE end

\* this.statusBarItems after createDockItems(): the entries of the first
\* maxItems items, then the "+" button.
createDockItems(list, cfg) ==
    [k \in 1..(SliceEnd(Len(list), cfg.maxItems) + 1) |->
        IF k <= SliceEnd(Len(list), cfg.maxItems)
        THEN StatusBarItem(list[k], k - 1, cfg)
        ELSE addButton]


---------------------------------------------------------------------------
(* The environment: what the user and the machine can supply *)

\* showInputBox resolves to undefined when cancelled, else to the text.
NameAnswers == {Undef, "", "Docs"}
TitleAnswers == {Undef, ""}
CommandAnswers == {Undef, "cmd.run"}
IconAnswers == {Undef, "$(star)"}
UrlAnswers == {Undef, "", "https://x.test"}

\* showOpenDialog resolves to undefined, to an empty array ("") or to one path.
FileAnswers == {Undef, "", "/w/app.ts"}
FolderAnswers == {Undef, "", "/w/docs"}

\* path.basename and path.extname on the paths the picker can return.
basename(p) ==
    CASE p = "/w/app.ts" -> "app.ts"
      [] p = "/w/docs" -> "docs"
      [] OTHER -> p

extname(name) ==
    CASE name = "app.ts" -> ".ts"
      [] OTHER -> ""

getFileIcon(fileName) ==
    CASE extname(fileName) \in {".js", ".ts"} -> "$(symbol-method)"
      [] extname(fileName) = ".html" -> "$(globe)"
      [] extname(fileName) = ".css" -> "$(symbol-color)"
      [] extname(fileName) = ".json" -> "$(symbol-object)"
      [] extname(fileName) = ".md" -> "$(book)"
      [] extname(fileName) = ".txt" -> "$(file-text)"
      [] extname(fileName) = ".pdf" -> "$(file-pdf)"
      [] extname(fileName) \in {".png", ".jpg", ".gif", ".svg"} -> "$(file-media)"
      [] OTHER -> "$(file)"

\* The `value` of the entry picked in the colour quick pick ("" is Default),
\* undefined when the pick is cancelled.  One of the eight colours stands
\* for the rest.
ColorAnswers == {Undef, "", "#007ACC"}

\* showWarningMessage(..., 'Yes', 'No') resolves to the button, or undefined.
ConfirmAnswers == {"Yes", "No", Undef}

\* What the user types into the prompts of editItem.
EditNameAnswers == {Undef, "", "Notes"}
EditTitleAnswers == {Undef, "Tip"}
EditCommandAnswers == {Undef, "", "cmd.new"}
EditIconAnswers == {Undef, ""}
EditUrlAnswers == {Undef, ""}

\* The configuration the extension is started with: nothing stored yet, the
\* list an earlier session stored, and a list written into the settings
\* file by hand, whose folder-group has no children field.
StoredLink ==
    [NoItem EXCEPT !.id = "link-0", !.type = "link", !.name = "Repo",
                   !.title = "Repo", !.url = "https://r.test", !.icon = "$(globe)"]

StoredFolderGroup ==
    [NoItem EXCEPT !.id = "folder-group-0", !.type = "folder-group", !.name = "Work",
                   !.title = "Work", !.icon = "$(folder-opened)",
                   !.hasChildren = TRUE, !.children = <<StoredLink>>]

StoredFile ==
    [NoItem EXCEPT !.id = "file-0", !.type = "file", !.name = "a.md",
                   !.title = "a.md", !.path = "/w/a.md", !.icon = "$(book)"]

HandWrittenFolderGroup ==
    [NoItem EXCEPT !.id = "tools", !.type = "folder-group", !.name = "Tools",
                   !.icon = "$(folder-opened)"]

PersistedConfigs ==
    { <<>>,
      <<StoredFolderGroup, StoredFile>>,
      <<HandWrittenFolderGroup>> }

DefaultSettings == [maxItems |-> 10, showIcons |-> TRUE, showTitles |-> TRUE]

SettingsChoices == {DefaultSettings}

---------------------------------------------------------------------------
(* Operations in flight *)

Slots == 1..MaxOps

\* pc: the await the operation is suspended at; item, folder: the objects it
\* was given (0: none, or an object the store never held); id, type: the id
\* and type of item; kind: how showManageItemsDialog listed it; handler,
\* render, notice: what follows the pending configuration write.
Idle ==
    [pc |-> "idle", item |-> 0, id |-> Undef, type |-> Undef, folder |-> 0,
     folderId |-> Undef, kind |-> Undef,
     handler |-> Undef, render |-> FALSE, notice |-> Undef]

At(pc) == [Idle EXCEPT !.pc = pc]

\* Suspended at `await this.saveConfiguration()`.
Saving(handler, render, notice) ==
    [Idle EXCEPT !.pc = "saveConfiguration", !.handler = handler,
                 !.render = render, !.notice = notice]

Goto(s, op) == ops' = [ops EXCEPT ![s] = op]

Finish(s) == Goto(s, Idle)

Did(act, ans, notice, wrote, rendered, done) ==
    last' = [act |-> act, ans |-> ans, notice |-> notice, wrote |-> wrote,
             rendered |-> rendered, done |-> done]

\* config.update('items', this.dockItems, Global) with the list as it is when
\* saveConfiguration is called.
saveConfiguration(list) == persisted' = Serialize(list)

\* The entries of a list as a bag.
BagOfEntries(entries) ==
    [e \in {entries[k] : k \in DOMAIN entries} |->
        Cardinality({k \in DOMAIN entries : entries[k] = e})]

\* A faulty start of createDockItems that disposes nothing.
disposeNone(shown, entries) == shown

\* this.statusBarItems.forEach(item => item.dispose()): the entries leave
\* the status bar.
disposeAll(shown, entries) == shown (-) BagOfEntries(entries)

\* createDockItems() on the list: the old entries are disposed, the new
\* ones are created and shown.
Render(list) ==
    /\ statusBarItems' = createDockItems(list, settings)
    /\ visible' = disposeAll(visible, statusBarItems) (+) BagOfEntries(statusBarItems')

Init ==
    /\ activated = FALSE
    /\ dockItems = <<>>
    /\ statusBarItems = <<>>
    /\ visible = EmptyBag
    /\ persisted \in PersistedConfigs
    /\ settings \in SettingsChoices
    /\ ops = [s \in Slots |-> Idle]
    /\ clock = 1
    /\ alloc = [next |-> 1, commands |-> 0]
    /\ last = [act |-> "constructor", ans |-> <<>>, notice |-> Undef,
               wrote |-> FALSE, rendered |-> FALSE, done |-> "no"]

\* Date.now() advances.
Tick ==
    /\ clock < MaxClock
    /\ clock' = clock + 1
    /\ UNCHANGED <<activated, dockItems, statusBarItems, visible, persisted, settings, ops, alloc, last>>

\* n more objects have been created.
Alloc(n) == alloc' = [alloc EXCEPT !.next = @ + n]

---------------------------------------------------------------------------
(* activate(): initialize() up to its first await that yields *)

\* The list loadConfiguration() leaves in this.dockItems: the stored items,
\* or the defaults when nothing is stored.
loadConfiguration(stored, base) ==
    IF Len(Deserialize(stored, base)) = 0
    THEN getDefaultItems(base)
    ELSE Deserialize(stored, base)

initialize ==
    /\ ~activated
    /\ activated' = TRUE
    /\ LET loaded == loadConfiguration(persisted, 0)
       IN IF Len(persisted) = 0
          THEN /\ dockItems' = loaded
               /\ saveConfiguration(dockItems')
               /\ Alloc(Len(dockItems'))
               /\ Goto(1, Saving("initialize", TRUE, Undef))
               /\ Did("initialize", <<>>, Undef, TRUE, FALSE, "no")
               /\ UNCHANGED <<statusBarItems, visible>>
          ELSE /\ dockItems' = loaded
               /\ Alloc(ObjectCount(loaded))
               /\ Render(loaded)
               /\ Did("initialize", <<>>, Undef, FALSE, TRUE, "completed")
               /\ UNCHANGED <<persisted, ops>>
    /\ UNCHANGED <<settings, clock>>

\* The configuration write has completed: the handler goes on after
\* `await this.saveConfiguration()`, re-renders (all handlers but
\* addItemToFolder) and shows its notice.
afterSave(s) ==
    /\ ops[s].pc = "saveConfiguration"
    /\ IF ops[s].render
       THEN Render(dockItems)
       ELSE UNCHANGED <<statusBarItems, visible>>
    /\ Did(ops[s].handler, <<>>, ops[s].notice, FALSE, ops[s].render, "completed")
    /\ Finish(s)
    /\ UNCHANGED <<activated, dockItems, persisted, settings, clock, alloc>>

---------------------------------------------------------------------------
(* The commands registered by activate(): each starts an operation, which   *)
(* runs to its first prompt, and returns without awaiting it                *)

\* The lowest free slot takes the next command.
Free(s) ==
    /\ activated
    /\ alloc.commands < MaxCommands
    /\ ops[s].pc = "idle"
    /\ \A t \in Slots : t < s => ops[t].pc # "idle"

Invoked == alloc' = [alloc EXCEPT !.commands = @ + 1]

Command(s, act, op) ==
    /\ Free(s)
    /\ Invoked
    /\ Goto(s, op)
    /\ Did(act, <<>>, Undef, FALSE, FALSE, "no")
    /\ UNCHANGED <<activated, dockItems, statusBarItems, visible, persisted, settings, clock>>

\* 'vscode-dock.addItem': the "+" button or the command palette
addItemCommand(s) == Command(s, "addItemCommand", At("showAddItemDialog"))

\* 'vscode-dock.addFolder'
addFolderCommand(s) == Command(s, "addFolderCommand", At("showAddFolderDialog"))

\* 'vscode-dock.configure'
configureCommand(s) == Command(s, "configureCommand", At("showConfigurationDialog"))

\* 'vscode-dock.showFolderMenu', with the item of a status bar entry that is
\* on screen.  The entry holds the folder-group object itself.  An item
\* without children gets an empty array, which is not saved.
showFolderMenuCommand(s) ==
    /\ Free(s)
    /\ Invoked
    /\ \E k \in DOMAIN statusBarItems :
        /\ statusBarItems[k].command.command = "vscode-dock.showFolderMenu"
        /\ LET r == statusBarItems[k].command.item
               init(item) == IF item.hasChildren THEN item
                             ELSE [item EXCEPT !.hasChildren = TRUE, !.children = <<>>]
           IN /\ dockItems' = UpdateRef(dockItems, r, init(Deref(dockItems, r)))
              /\ Goto(s, [At("showFolderMenu") EXCEPT !.folder = r,
                             !.folderId = statusBarItems[k].command.id])
    /\ Did("showFolderMenuCommand", <<>>, Undef, FALSE, FALSE, "no")
    /\ UNCHANGED <<activated, statusBarItems, visible, persisted, settings, clock>>

---------------------------------------------------------------------------
(* Adding to the top-level list *)

\* An operation ends without touching the store.
Abort(s, act, ans, notice) ==
    /\ Finish(s)
    /\ Did(act, ans, notice, FALSE, FALSE, "returned")
    /\ UNCHANGED <<activated, dockItems, statusBarItems, visible, persisted, settings, clock, alloc>>

\* A prompt is answered and the operation goes on to its next prompt.
Step(s, act, ans, op) ==
    /\ Goto(s, op)
    /\ Did(act, ans, Undef, FALSE, FALSE, "no")
    /\ UNCHANGED <<activated, dockItems, statusBarItems, visible, persisted, settings, clock, alloc>>

\* this.dockItems.push(newItem); await this.saveConfiguration(); ...
PushItem(s, act, ans, newItem) ==
    /\ Alloc(1)
    /\ dockItems' = Append(dockItems, newItem)
    /\ saveConfiguration(dockItems')
    /\ Goto(s, Saving(act, TRUE, Undef))
    /\ Did(act, ans, Undef, TRUE, FALSE, "no")
    /\ UNCHANGED <<activated, statusBarItems, visible, settings, clock>>

\* The answers to a chain of prompts of which only the first `shown` come up.
Answers(sets, shown) ==
    {a \in [DOMAIN sets -> UNION {sets[i] : i \in DOMAIN sets} \cup {NotShown}] :
        \A i \in DOMAIN sets : IF i <= shown THEN a[i] \in sets[i] ELSE a[i] = NotShown}

\* The object literals of addAppItem / createAppItem and the like.
AppItem(ref, now, name, title, command, icon) ==
    [NoItem EXCEPT !.ref = ref, !.id = "app-" \o ToString(now), !.type = "app",
                   !.name = name, !.title = OrElse(title, name),
                   !.command = command, !.icon = icon]

FileItem(ref, now, filePath, title) ==
    [NoItem EXCEPT !.ref = ref, !.id = "file-" \o ToString(now), !.type = "file",
                   !.name = basename(filePath), !.title = OrElse(title, basename(filePath)),
                   !.path = filePath, !.icon = getFileIcon(basename(filePath))]

FolderItem(ref, now, folderPath, title) ==
    [NoItem EXCEPT !.ref = ref, !.id = "folder-" \o ToString(now), !.type = "folder",
                   !.name = basename(folderPath), !.title = OrElse(title, basename(folderPath)),
                   !.path = folderPath, !.icon = "$(folder)"]

LinkItem(ref, now, url, name, title) ==
    [NoItem EXCEPT !.ref = ref, !.id = "link-" \o ToString(now), !.type = "link",
                   !.name = name, !.title = OrElse(title, name),
                   !.url = url, !.icon = "$(globe)"]

FolderGroupItem(ref, now, name, title, color) ==
    [NoItem EXCEPT !.ref = ref, !.id = "folder-group-" \o ToString(now), !.type = "folder-group",
                   !.name = name, !.title = OrElse(title, name), !.icon = "$(folder-opened)",
                   !.color = IF Truthy(color) THEN color ELSE Undef,
                   !.hasChildren = TRUE, !.children = <<>>]

\* The prompt chains: `if (!name) return` after the first prompt (for a
\* link after the first and after the second) ends the chain.
AppAnswers ==
    {a \in Answers(<<NameAnswers, TitleAnswers, CommandAnswers, IconAnswers>>, 1) : ~Truthy(a[1])}
    \cup {a \in Answers(<<NameAnswers, TitleAnswers, CommandAnswers, IconAnswers>>, 4) : Truthy(a[1])}

FileItemAnswers ==
    {a \in Answers(<<FileAnswers, TitleAnswers>>, 1) : ~Truthy(a[1])}
    \cup {a \in Answers(<<FileAnswers, TitleAnswers>>, 2) : Truthy(a[1])}

FolderItemAnswers ==
    {a \in Answers(<<FolderAnswers, TitleAnswers>>, 1) : ~Truthy(a[1])}
    \cup {a \in Answers(<<FolderAnswers, TitleAnswers>>, 2) : Truthy(a[1])}

LinkAnswers ==
    {a \in Answers(<<UrlAnswers, NameAnswers, TitleAnswers>>, 1) : ~Truthy(a[1])}
    \cup {a \in Answers(<<UrlAnswers, NameAnswers, TitleAnswers>>, 2) : Truthy(a[1]) /\ ~Truthy(a[2])}
    \cup {a \in Answers(<<UrlAnswers, NameAnswers, TitleAnswers>>, 3) : Truthy(a[1]) /\ Truthy(a[2])}

FolderGroupAnswers ==
    {a \in Answers(<<NameAnswers, TitleAnswers, ColorAnswers>>, 1) : ~Truthy(a[1])}
    \cup {a \in Answers(<<NameAnswers, TitleAnswers, ColorAnswers>>, 3) : Truthy(a[1])}

\* showAddItemDialog: the type pick is cancelled.
showAddItemDialog(s) ==
    /\ ops[s].pc = "showAddItemDialog"
    /\ Abort(s, "showAddItemDialog", <<Undef>>, Undef)

\* showAddItemDialog picks 'App/Command': addAppItem
addAppItem(s) ==
    /\ ops[s].pc = "showAddItemDialog"
    /\ \E a \in AppAnswers :
        IF ~Truthy(a[1])
        THEN Abort(s, "addAppItem", a, Undef)
        ELSE PushItem(s, "addAppItem", a, AppItem(alloc.next, clock, a[1], a[2], a[3], a[4]))

\* showAddItemDialog picks 'File': addFileItem
addFileItem(s) ==
    /\ ops[s].pc = "showAddItemDialog"
    /\ \E a \in FileItemAnswers :
        IF ~Truthy(a[1])
        THEN Abort(s, "addFileItem", a, Undef)
        ELSE PushItem(s, "addFileItem", a, FileItem(alloc.next, clock, a[1], a[2]))

\* showAddItemDialog picks 'Folder': addFolderItem
addFolderItem(s) ==
    /\ ops[s].pc = "showAddItemDialog"
    /\ \E a \in FolderItemAnswers :
        IF ~Truthy(a[1])
        THEN Abort(s, "addFolderItem", a, Undef)
        ELSE PushItem(s, "addFolderItem", a, FolderItem(alloc.next, clock, a[1], a[2]))

\* A faulty addLinkItem without the `if (!name) return` of line 335.
addLinkItemAnyName(s) ==
    /\ ops[s].pc = "showAddItemDialog"
    /\ \E a \in LinkAnswers :
        IF ~Truthy(a[1])
        THEN Abort(s, "addLinkItem", a, Undef)
        ELSE PushItem(s, "addLinkItem", a, LinkItem(alloc.next, clock, a[1], a[2], a[3]))

\* showAddItemDialog picks 'Web Link': addLinkItem
addLinkItem(s) ==
    /\ ops[s].pc = "showAddItemDialog"
    /\ \E a \in LinkAnswers :
        IF ~Truthy(a[1]) \/ ~Truthy(a[2])
        THEN Abort(s, "addLinkItem", a, Undef)
        ELSE PushItem(s, "addLinkItem", a, LinkItem(alloc.next, clock, a[1], a[2], a[3]))

\* The addFolder command, or showAddItemDialog picks 'Folder Group'
showAddFolderDialog(s) ==
    /\ ops[s].pc \in {"showAddFolderDialog", "showAddItemDialog"}
    /\ \E a \in FolderGroupAnswers :
        IF ~Truthy(a[1])
        THEN Abort(s, "showAddFolderDialog", a, Undef)
        ELSE PushItem(s, "showAddFolderDialog", a,
                      FolderGroupItem(alloc.next, clock, a[1], a[2], a[3]))

---------------------------------------------------------------------------
(* Changing the top-level list *)

\* A faulty Commit that forgets `await this.saveConfiguration()`.
CommitUnsaved(s, act, ans, list, render, notice) ==
    /\ dockItems' = list
    /\ Goto(s, Saving(act, render, notice))
    /\ Did(act, ans, Undef, FALSE, FALSE, "no")
    /\ UNCHANGED <<activated, statusBarItems, visible, persisted, settings, clock, alloc>>

\* The store is written and the handler awaits the configuration write.
Commit(s, act, ans, list, render, notice) ==
    /\ dockItems' = list
    /\ saveConfiguration(list)
    /\ Goto(s, Saving(act, render, notice))
    /\ Did(act, ans, Undef, TRUE, FALSE, "no")
    /\ UNCHANGED <<activated, statusBarItems, visible, settings, clock, alloc>>

\* A faulty swap that writes the item to its new place and loses the item
\* that was there.
moveItemListOverwrites(list, id, direction) ==
    LET index == FindIndex(list, id)
        newIndex == index + direction
    IN IF index = 0 \/ newIndex < 1 \/ newIndex > Len(list)
       THEN list
       ELSE [list EXCEPT ![newIndex] = list[index]]

\* The list after moveItem(item, direction), item.id = id.
moveItemList(list, id, direction) ==
    LET index == FindIndex(list, id)
        newIndex == index + direction
    IN IF index = 0 \/ newIndex < 1 \/ newIndex > Len(list)
       THEN list
       ELSE Swap(list, index, newIndex)

\* A faulty moveItem without the bounds test of line 962.
moveItemOutcomeUnbounded(list, id, direction) ==
    IF FindIndex(list, id) = 0 THEN "absent" ELSE "found"

\* "found": the swap is made; "bounds": the notice; "absent": the silent return.
moveItemOutcome(list, id, direction) ==
    LET index == FindIndex(list, id)
        newIndex == index + direction
    IN IF index = 0 THEN "absent"
       ELSE IF newIndex < 1 \/ newIndex > Len(list) THEN "bounds"
       ELSE "found"

\* moveItem(item, direction), run by showManageItemsDialog as soon as the
\* action is picked.
moveItem(s, direction) ==
    /\ ops[s].pc = "showManageItemsDialog"
    /\ ops[s].kind \in {"folder-group", "default", "user"}
    /\ LET outcome == moveItemOutcome(dockItems, ops[s].id, direction)
           ans == <<IF direction < 0 THEN "Move Up" ELSE "Move Down">>
       IN CASE outcome = "absent" -> Abort(s, "moveItem", ans, Undef)
            [] outcome = "bounds" -> Abort(s, "moveItem", ans, "Cannot move item in that direction.")
            [] outcome = "found" ->
                 Commit(s, "moveItem", ans, moveItemList(dockItems, ops[s].id, direction),
                        TRUE, "Moved")

\* A faulty splice that always removes the first item of the list.
deleteItemListFirst(list, id) ==
    IF FindIndex(list, id) = 0 THEN list ELSE Splice(list, 1)

\* The list after the splice of deleteItem / removeItem / removeFolderGroup for id.
deleteItemList(list, id) ==
    IF FindIndex(list, id) = 0 THEN list ELSE Splice(list, FindIndex(list, id))

\* deleteItem(item): the confirmation is answered.
deleteItem(s) ==
    /\ ops[s].pc = "deleteItem"
    /\ \E result \in ConfirmAnswers :
        IF result = "Yes" /\ FindIndex(dockItems, ops[s].id) # 0
        THEN Commit(s, "deleteItem", <<result>>, deleteItemList(dockItems, ops[s].id),
                    TRUE, "Deleted")
        ELSE Abort(s, "deleteItem", <<result>>, Undef)

\* removeFolderGroup(folderItem): the confirmation is answered.
removeFolderGroup(s) ==
    /\ ops[s].pc = "removeFolderGroup"
    /\ \E result \in ConfirmAnswers :
        IF result = "Yes" /\ FindIndex(dockItems, ops[s].folderId) # 0
        THEN Commit(s, "removeFolderGroup", <<result>>,
                    deleteItemList(dockItems, ops[s].folderId), TRUE, "Deleted folder")
        ELSE Abort(s, "removeFolderGroup", <<result>>, Undef)

\* A faulty clearAllItems that keeps what follows the first item.
clearAllItemsKeepsTail(s) ==
    /\ ops[s].pc = "clearAllItems"
    /\ \E result \in ConfirmAnswers :
        IF result = "Yes"
        THEN /\ dockItems' = getDefaultItems(alloc.next - 1) \o Tail(dockItems)
             /\ Alloc(Len(getDefaultItems(0)))
             /\ saveConfiguration(dockItems')
             /\ Goto(s, Saving("clearAllItems", TRUE, "All custom dock items cleared"))
             /\ Did("clearAllItems", <<result>>, Undef, TRUE, FALSE, "no")
             /\ UNCHANGED <<activated, statusBarItems, visible, settings, clock>>
        ELSE Abort(s, "clearAllItems", <<result>>, Undef)

\* clearAllItems(): the confirmation is answered.
clearAllItems(s) ==
    /\ ops[s].pc = "clearAllItems"
    /\ \E result \in ConfirmAnswers :
        IF result = "Yes"
        THEN /\ dockItems' = getDefaultItems(alloc.next - 1)
             /\ Alloc(Len(dockItems'))
             /\ saveConfiguration(dockItems')
             /\ Goto(s, Saving("clearAllItems", TRUE, "All custom dock items cleared"))
             /\ Did("clearAllItems", <<result>>, Undef, TRUE, FALSE, "no")
             /\ UNCHANGED <<activated, statusBarItems, visible, settings, clock>>
        ELSE Abort(s, "clearAllItems", <<result>>, Undef)

\* changeFolderColor(folderItem): the colour pick is answered.
changeFolderColor(s) ==
    /\ ops[s].pc = "changeFolderColor"
    /\ \E color \in ColorAnswers :
        LET set(item) == [item EXCEPT !.color = IF Truthy(color) THEN color ELSE Undef]
        IN IF color # Undef
           THEN Commit(s, "changeFolderColor", <<color>>,
                       UpdateRef(dockItems, ops[s].folder, set(Deref(dockItems, ops[s].folder))), TRUE, "Changed folder color")
           ELSE Abort(s, "changeFolderColor", <<color>>, Undef)

---------------------------------------------------------------------------
(* Folder-groups *)

\* The list with `children` as the children of the folder numbered r.
UpdateChildren(list, r, children) ==
    UpdateRef(list, r, [Deref(list, r) EXCEPT !.hasChildren = TRUE, !.children = children])

\* What an operation finds in the children of the folder it holds: `found`
\* for a folder in the store; a detached folder is an object the store no
\* longer tracks, whose children are whatever they were: any of `possible`.
FolderOutcomes(found, folder, possible) ==
    IF Attached(dockItems, folder) THEN {found} ELSE possible

\* removeItemFromFolder(item, folder): the confirmation is answered.
removeItemFromFolder(s) ==
    /\ ops[s].pc = "removeItemFromFolder"
    /\ \E result \in ConfirmAnswers :
        LET folder == Deref(dockItems, ops[s].folder)
            index == FindIndex(folder.children, ops[s].id)
            cut(children) == Splice(children, index)
        IN \E outcome \in FolderOutcomes(IF index = 0 THEN "absent" ELSE "found",
                                         ops[s].folder, {"absent", "found"}) :
            IF result = "Yes" /\ outcome = "found"
            THEN Commit(s, "removeItemFromFolder", <<result>>,
                        IF index = 0 THEN dockItems
                        ELSE UpdateChildren(dockItems, ops[s].folder, cut(folder.children)),
                        TRUE, "Removed from folder")
            ELSE Abort(s, "removeItemFromFolder", <<result>>, Undef)

\* moveItemInFolder(item, folder, direction), run by the dialog as soon as
\* the action is picked.
moveItemInFolder(s, direction) ==
    /\ \/ ops[s].pc = "showManageItemsDialog" /\ ops[s].kind = "child"
       \/ ops[s].pc = "showFolderItemsDialog"
    /\ LET folder == Deref(dockItems, ops[s].folder)
           ans == <<IF direction < 0 THEN "Move Up in Folder" ELSE "Move Down in Folder">>
           move(children) == moveItemList(children, ops[s].id, direction)
       IN \E outcome \in FolderOutcomes(moveItemOutcome(folder.children, ops[s].id, direction),
                                        ops[s].folder, {"absent", "bounds", "found"}) :
           CASE outcome = "absent" -> Abort(s, "moveItemInFolder", ans, Undef)
             [] outcome = "bounds" ->
                  Abort(s, "moveItemInFolder", ans,
                        "Cannot move item in that direction within the folder.")
             [] outcome = "found" ->
                  Commit(s, "moveItemInFolder", ans,
                         UpdateChildren(dockItems, ops[s].folder, move(folder.children)), TRUE, "Moved in folder")

\* addItemToFolder(folderItem): the type pick and the prompts of
\* createAppItem / createFileItem / createFolderItem / createLinkItem are
\* answered; a new item is pushed onto folderItem.children and the list is
\* saved.  createDockItems is not called.
\* The list after folderItem.children.push(newItem); a target without
\* children gets an array first.
addItemToFolderList(list, folder, newItem) ==
    UpdateChildren(list, folder, Append(Deref(list, folder).children, newItem))

PushChild(s, ans, newItem) ==
    /\ Alloc(1)
    /\ dockItems' = addItemToFolderList(dockItems, ops[s].folder, newItem)
    /\ saveConfiguration(dockItems')
    /\ Goto(s, Saving("addItemToFolder", FALSE, "Added to folder"))
    /\ Did("addItemToFolder", ans, Undef, TRUE, FALSE, "no")
    /\ UNCHANGED <<activated, statusBarItems, visible, settings, clock>>

\* A faulty addItemToFolder whose 'Folder' choice builds a folder-group.
addItemToFolderNested(s) ==
    /\ ops[s].pc = "addItemToFolder"
    /\ \/ Abort(s, "addItemToFolder", <<Undef>>, Undef)
       \/ \E a \in FolderItemAnswers :
            IF ~Truthy(a[1]) THEN Abort(s, "addItemToFolder", <<"Folder">> \o a, Undef)
            ELSE PushChild(s, <<"Folder">> \o a,
                           FolderGroupItem(alloc.next, clock, a[1], a[2], Undef))

addItemToFolder(s) ==
    /\ ops[s].pc = "addItemToFolder"
    /\ \/ Abort(s, "addItemToFolder", <<Undef>>, Undef)
       \/ \E a \in AppAnswers :
            IF ~Truthy(a[1]) THEN Abort(s, "addItemToFolder", <<"App/Command">> \o a, Undef)
            ELSE PushChild(s, <<"App/Command">> \o a,
                           AppItem(alloc.next, clock, a[1], a[2], a[3], a[4]))
       \/ \E a \in FileItemAnswers :
            IF ~Truthy(a[1]) THEN Abort(s, "addItemToFolder", <<"File">> \o a, Undef)
            ELSE PushChild(s, <<"File">> \o a, FileItem(alloc.next, clock, a[1], a[2]))
       \/ \E a \in FolderItemAnswers :
            IF ~Truthy(a[1]) THEN Abort(s, "addItemToFolder", <<"Folder">> \o a, Undef)
            ELSE PushChild(s, <<"Folder">> \o a, FolderItem(alloc.next, clock, a[1], a[2]))
       \/ \E a \in LinkAnswers :
            IF ~Truthy(a[1]) \/ ~Truthy(a[2])
            THEN Abort(s, "addItemToFolder", <<"Web Link">> \o a, Undef)
            ELSE PushChild(s, <<"Web Link">> \o a, LinkItem(alloc.next, clock, a[1], a[2], a[3]))

\* The child a folder dialog hands on: one of the children of a folder in
\* the store; a detached folder hands on an object the store does not hold.
Holding(pc, folder, folderId, child) ==
    [At(pc) EXCEPT !.item = child.ref, !.id = child.id, !.type = child.type,
                   !.folder = folder, !.folderId = folderId, !.kind = "child"]

ChildTypes == {"app", "file", "folder", "link"}

\* showFolderItemsDialog(folderItem) up to its first prompt.
showFolderItemsDialog(s) ==
    /\ ops[s].pc = "showFolderMenu"
    /\ LET folder == Deref(dockItems, ops[s].folder)
       IN IF Attached(dockItems, ops[s].folder)
          THEN IF Len(folder.children) = 0
               THEN Abort(s, "showFolderItemsDialog", <<"Configure Items">>, "folder is empty")
               ELSE \E j \in DOMAIN folder.children :
                       Step(s, "showFolderItemsDialog", <<"Configure Items">>,
                            Holding("showFolderItemsDialog", ops[s].folder, ops[s].folderId,
                                    folder.children[j]))
          ELSE \E type \in ChildTypes :
                  Step(s, "showFolderItemsDialog", <<"Configure Items">>,
                       Holding("showFolderItemsDialog", ops[s].folder, ops[s].folderId,
                               [NoItem EXCEPT !.type = type]))

\* showFolderMenu(folderItem): the menu is answered.  Cancel, the separator
\* and a child (whose command is executed) leave the store alone.
showFolderMenu(s) ==
    /\ ops[s].pc = "showFolderMenu"
    /\ \E action \in {Undef, "item", "Add Item to Folder", "Change Color", "Remove Folder"} :
        CASE action \in {Undef, "item"} -> Abort(s, "showFolderMenu", <<action>>, Undef)
          [] action = "Add Item to Folder" ->
               Step(s, "showFolderMenu", <<action>>, [ops[s] EXCEPT !.pc = "addItemToFolder"])
          [] action = "Change Color" ->
               Step(s, "showFolderMenu", <<action>>, [ops[s] EXCEPT !.pc = "changeFolderColor"])
          [] action = "Remove Folder" ->
               Step(s, "showFolderMenu", <<action>>, [ops[s] EXCEPT !.pc = "removeFolderGroup"])

\* The second prompt of showFolderItemsDialog: Edit or Remove from Folder
\* (the moves are moveItemInFolder).
showFolderItemsAction(s) ==
    /\ ops[s].pc = "showFolderItemsDialog"
    /\ \E action \in {Undef, "Edit", "Remove from Folder"} :
        CASE action = Undef -> Abort(s, "showFolderItemsDialog", <<action>>, Undef)
          [] action = "Edit" ->
               Step(s, "showFolderItemsDialog", <<action>>, [ops[s] EXCEPT !.pc = "editItem"])
          [] action = "Remove from Folder" ->
               Step(s, "showFolderItemsDialog", <<action>>,
                    [ops[s] EXCEPT !.pc = "removeItemFromFolder"])

---------------------------------------------------------------------------
(* editItem(item) *)

\* The name and title prompts are answered: either cancelled returns, else
\* both are written to the item and the prompt for the type comes up (an
\* app: command, then icon; a folder-group: color; a link: url); a file or
\* folder is saved at once.
editItem(s) ==
    /\ ops[s].pc = "editItem"
    /\ \E newName \in EditNameAnswers : \E newTitle \in EditTitleAnswers \cup {NotShown} :
        /\ newTitle = NotShown <=> newName = Undef
        /\ LET set(item) == [item EXCEPT !.name = newName, !.title = newTitle]
               list == UpdateRef(dockItems, ops[s].item, set(Deref(dockItems, ops[s].item)))
           IN IF newName = Undef \/ newTitle = Undef
              THEN Abort(s, "editItem", <<newName, newTitle>>, Undef)
              ELSE IF ops[s].type \in {"app", "folder-group", "link"}
              THEN /\ dockItems' = list
                   /\ Goto(s, [ops[s] EXCEPT !.pc =
                                 CASE ops[s].type = "app" -> "editItem.command"
                                   [] ops[s].type = "folder-group" -> "editItem.color"
                                   [] ops[s].type = "link" -> "editItem.url"])
                   /\ Did("editItem", <<newName, newTitle>>, Undef, FALSE, FALSE, "no")
                   /\ UNCHANGED <<activated, statusBarItems, visible, persisted, settings, clock, alloc>>
              ELSE Commit(s, "editItem", <<newName, newTitle>>, list, TRUE, "Updated")

\* The command prompt of an app is answered; the icon prompt comes up.
editItemCommand(s) ==
    /\ ops[s].pc = "editItem.command"
    /\ \E newCommand \in EditCommandAnswers :
        LET set(item) == [item EXCEPT !.command = newCommand]
        IN /\ dockItems' = IF newCommand # Undef
                           THEN UpdateRef(dockItems, ops[s].item, set(Deref(dockItems, ops[s].item))) ELSE dockItems
           /\ Goto(s, [ops[s] EXCEPT !.pc = "editItem.icon"])
           /\ Did("editItem.command", <<newCommand>>, Undef, FALSE, FALSE, "no")
           /\ UNCHANGED <<activated, statusBarItems, visible, persisted, settings, clock, alloc>>

\* The icon prompt of an app is answered; the list is saved.
editItemIcon(s) ==
    /\ ops[s].pc = "editItem.icon"
    /\ \E newIcon \in EditIconAnswers :
        LET set(item) == [item EXCEPT !.icon = newIcon]
        IN Commit(s, "editItem.icon", <<newIcon>>,
                  IF newIcon # Undef THEN UpdateRef(dockItems, ops[s].item, set(Deref(dockItems, ops[s].item))) ELSE dockItems,
                  TRUE, "Updated")

\* The colour pick of a folder-group is answered; the list is saved.
editItemColor(s) ==
    /\ ops[s].pc = "editItem.color"
    /\ \E color \in ColorAnswers :
        LET set(item) == [item EXCEPT !.color = IF Truthy(color) THEN color ELSE Undef]
        IN Commit(s, "editItem.color", <<color>>,
                  IF color # Undef THEN UpdateRef(dockItems, ops[s].item, set(Deref(dockItems, ops[s].item))) ELSE dockItems,
                  TRUE, "Updated")

\* A faulty url step that keeps the old url when the box is emptied.
editItemUrlKeepsEmpty(s) ==
    /\ ops[s].pc = "editItem.url"
    /\ \E newUrl \in EditUrlAnswers :
        LET set(item) == [item EXCEPT !.url = newUrl]
        IN Commit(s, "editItem.url", <<newUrl>>,
                  IF Truthy(newUrl) THEN UpdateRef(dockItems, ops[s].item, set(Deref(dockItems, ops[s].item))) ELSE dockItems,
                  TRUE, "Updated")

\* The url prompt of a link is answered; the list is saved.
editItemUrl(s) ==
    /\ ops[s].pc = "editItem.url"
    /\ \E newUrl \in EditUrlAnswers :
        LET set(item) == [item EXCEPT !.url = newUrl]
        IN Commit(s, "editItem.url", <<newUrl>>,
                  IF newUrl # Undef THEN UpdateRef(dockItems, ops[s].item, set(Deref(dockItems, ops[s].item))) ELSE dockItems,
                  TRUE, "Updated")

---------------------------------------------------------------------------
(* importChromeBookmarks() *)

UrlNode(name, url) == [type |-> "url", name |-> name, url |-> url, children |-> <<>>]
FolderNode(name, children) == [type |-> "folder", name |-> name, url |-> Undef, children |-> children]
OtherNode == [type |-> "separator", name |-> Undef, url |-> Undef, children |-> <<>>]
NullNode == [type |-> "null", name |-> Undef, url |-> Undef, children |-> <<>>]

\* The Bookmarks file: absent, not readable, not JSON, or a tree; `roots` holds the
\* children of each root.  A null node makes parseBookmarkNode throw.
BookmarkFiles ==
    { [state |-> "missing", roots |-> <<>>],
      [state |-> "unreadable", roots |-> <<>>],
      [state |-> "malformed", roots |-> <<>>],
      [state |-> "ok", roots |-> << <<FolderNode("empty", <<OtherNode>>)>>, <<>> >>],
      [state |-> "ok", roots |-> << <<UrlNode("A", "https://a.test"),
                                      FolderNode("sub", <<FolderNode("deep", <<UrlNode("", "https://b.test")>>)>>)>> >>],
      [state |-> "ok", roots |-> << <<UrlNode("A", "https://a.test"), NullNode>> >>] }

\* The nodes of a list of nodes in the order parseBookmarkNode visits them,
\* folders replaced by what they hold.
RECURSIVE WalkShallow(_)
\* A faulty walk that does not go into the folders of a folder.
WalkShallow(nodes) ==
    IF Len(nodes) = 0 THEN <<>>
    ELSE LET node == Head(nodes)
             leaf(child) == child.type # "folder"
         IN (CASE node.type = "folder" -> SelectSeq(node.children, leaf)
               [] OTHER -> <<node>>)
            \o WalkShallow(Tail(nodes))

RECURSIVE Walk(_)
Walk(nodes) ==
    IF Len(nodes) = 0 THEN <<>>
    ELSE LET node == Head(nodes)
         IN (CASE node.type = "folder" -> Walk(node.children)
               [] OTHER -> <<node>>)
            \o Walk(Tail(nodes))

RECURSIVE WalkRoots(_)
WalkRoots(roots) ==
    IF Len(roots) = 0 THEN <<>> ELSE Walk(Head(roots)) \o WalkRoots(Tail(roots))

\* A faulty parse that makes a link of every node that is not a folder.
parseChromeBookmarksAnyNode(file, now, base) ==
    LET urls == WalkRoots(file.roots)
    IN [k \in DOMAIN urls |->
          [NoItem EXCEPT !.ref = base + k,
                         !.id = "chrome-" \o ToString(now) \o "-" \o ToString(base + k),
                         !.type = "link", !.name = urls[k].name, !.url = urls[k].url,
                         !.icon = "$(globe)"]]

\* parseChromeBookmarks(bookmarksData): one link per url node.  Math.random()
\* never repeats: the number of the new object stands for it.
parseChromeBookmarks(file, now, base) ==
    LET isUrl(node) == node.type = "url"
        urls == SelectSeq(WalkRoots(file.roots), isUrl)
    IN [k \in DOMAIN urls |->
          [NoItem EXCEPT !.ref = base + k,
                         !.id = "chrome-" \o ToString(now) \o "-" \o ToString(base + k),
                         !.type = "link", !.name = urls[k].name, !.url = urls[k].url,
                         !.icon = "$(globe)"]]

\* A faulty walk that skips a null node instead of throwing.
ThrowsOnlyOnRead(file) == file.state \in {"unreadable", "malformed"}

\* readFileSync, JSON.parse or parseBookmarkNode throws.
Throws(file) ==
    \/ file.state \in {"unreadable", "malformed"}
    \/ \E k \in DOMAIN WalkRoots(file.roots) : WalkRoots(file.roots)[k].type = "null"

\* importChromeBookmarks() ends with a notice and the store as it was.
ImportNothing(s, file, notice, invoked) ==
    /\ Finish(s)
    /\ alloc' = [alloc EXCEPT !.commands = @ + invoked]
    /\ Did("importChromeBookmarks", <<file>>, notice, FALSE, FALSE, "returned")
    /\ UNCHANGED <<activated, dockItems, statusBarItems, visible, persisted, settings, clock>>

\* The body of importChromeBookmarks, which has no prompt; `invoked` is 1
\* when the command starts it and 0 when the configuration dialog does.
Import(s, file, invoked) ==
    LET importedItems == parseChromeBookmarks(file, clock, alloc.next - 1)
    IN CASE file.state = "missing" ->
              ImportNothing(s, file, "Chrome bookmarks file not found", invoked)
         [] file.state # "missing" /\ Throws(file) ->
              ImportNothing(s, file, "Failed to import Chrome bookmarks", invoked)
         [] file.state # "missing" /\ ~Throws(file) /\ Len(importedItems) = 0 ->
              ImportNothing(s, file, "No bookmarks found to import.", invoked)
         [] OTHER ->
              /\ dockItems' = dockItems \o importedItems
              /\ alloc' = [next |-> alloc.next + Len(importedItems),
                           commands |-> alloc.commands + invoked]
              /\ saveConfiguration(dockItems')
              /\ Goto(s, Saving("importChromeBookmarks", TRUE,
                                "Imported " \o ToString(Len(importedItems))))
              /\ Did("importChromeBookmarks", <<file>>, Undef, TRUE, FALSE, "no")
              /\ UNCHANGED <<activated, statusBarItems, visible, settings, clock>>

\* 'vscode-dock.importChromeBookmarks'
importChromeCommand(s) ==
    /\ Free(s)
    /\ \E file \in BookmarkFiles : Import(s, file, 1)

---------------------------------------------------------------------------
(* showConfigurationDialog() and showManageItemsDialog() *)

DefaultItemIds == {getDefaultItems(0)[i].id : i \in DOMAIN getDefaultItems(0)}

\* The first pick of showConfigurationDialog: cancelled, 'Add Item' or
\* 'Reset to Defaults' ('Manage Items' is showManageItemsDialog, 'Import
\* Chrome Bookmarks' is importFromDialog).
showConfigurationDialog(s) ==
    /\ ops[s].pc = "showConfigurationDialog"
    /\ \E action \in {Undef, "Add Item", "Reset to Defaults"} :
        CASE action = Undef -> Abort(s, "showConfigurationDialog", <<action>>, Undef)
          [] action = "Add Item" ->
               Step(s, "showConfigurationDialog", <<action>>, At("showAddItemDialog"))
          [] action = "Reset to Defaults" ->
               Step(s, "showConfigurationDialog", <<action>>, At("clearAllItems"))

importFromDialog(s) ==
    /\ ops[s].pc = "showConfigurationDialog"
    /\ \E file \in BookmarkFiles : Import(s, file, 0)

\* A faulty listing that does not tell the default items apart.
KindOfIgnoringDefaults(item) ==
    IF item.type = "folder-group" THEN "folder-group" ELSE "user"

\* How showManageItemsDialog lists a top-level item.
KindOf(item) ==
    IF item.type = "folder-group" THEN "folder-group"
    ELSE IF item.id \in DefaultItemIds THEN "default"
    ELSE "user"

\* showManageItemsDialog() up to its first prompt: the list is built from
\* dockItems as it is now, and the entry the user will pick holds its item
\* (a top-level item, or a child with its parent folder).
showManageItemsDialog(s) ==
    /\ ops[s].pc = "showConfigurationDialog"
    /\ IF Len(dockItems) = 0
       THEN Abort(s, "showManageItemsDialog", <<"Manage Items">>, "No dock items to manage.")
       ELSE \E i \in DOMAIN dockItems :
              \/ Step(s, "showManageItemsDialog", <<"Manage Items">>,
                      [At("showManageItemsDialog") EXCEPT
                          !.item = dockItems[i].ref, !.id = dockItems[i].id,
                          !.type = dockItems[i].type, !.kind = KindOf(dockItems[i]),
                          !.folder = dockItems[i].ref, !.folderId = dockItems[i].id])
              \/ /\ dockItems[i].type = "folder-group"
                 /\ \E j \in DOMAIN dockItems[i].children :
                      Step(s, "showManageItemsDialog", <<"Manage Items">>,
                           Holding("showManageItemsDialog", dockItems[i].ref, dockItems[i].id,
                                   dockItems[i].children[j]))

ManageActions(kind) ==
    CASE kind = "folder-group" -> {"Edit Folder", "Add Item to Folder", "Change Color", "Delete Folder"}
      [] kind = "child" -> {"Edit", "Remove from Folder"}
      [] kind = "default" -> {}
      [] kind = "user" -> {"Edit", "Delete"}

\* The item and the action are picked (the moves are moveItem and
\* moveItemInFolder): the handler of the action comes up with its prompt.
showManageItemsAction(s) ==
    /\ ops[s].pc = "showManageItemsDialog"
    /\ \E action \in ManageActions(ops[s].kind) \cup {Undef} :
        CASE action = Undef -> Abort(s, "showManageItemsDialog", <<action>>, Undef)
          [] action \in {"Edit", "Edit Folder"} ->
               Step(s, "showManageItemsDialog", <<action>>, [ops[s] EXCEPT !.pc = "editItem"])
          [] action = "Add Item to Folder" ->
               Step(s, "showManageItemsDialog", <<action>>, [ops[s] EXCEPT !.pc = "addItemToFolder"])
          [] action = "Change Color" ->
               Step(s, "showManageItemsDialog", <<action>>, [ops[s] EXCEPT !.pc = "changeFolderColor"])
          [] action = "Delete Folder" ->
               Step(s, "showManageItemsDialog", <<action>>, [ops[s] EXCEPT !.pc = "removeFolderGroup"])
          [] action = "Remove from Folder" ->
               Step(s, "showManageItemsDialog", <<action>>, [ops[s] EXCEPT !.pc = "removeItemFromFolder"])
          [] action = "Delete" ->
               Step(s, "showManageItemsDialog", <<action>>, [ops[s] EXCEPT !.pc = "deleteItem"])

---------------------------------------------------------------------------

Next ==
    \/ initialize
    \/ Tick
    \/ \E s \in Slots :
        \/ afterSave(s)
        \/ addItemCommand(s)
        \/ addFolderCommand(s)
        \/ importChromeCommand(s)
        \/ configureCommand(s)
        \/ showFolderMenuCommand(s)
        \/ showAddItemDialog(s)
        \/ addAppItem(s)
        \/ addFileItem(s)
        \/ addFolderItem(s)
        \/ addLinkItem(s)
        \/ showAddFolderDialog(s)
        \/ showConfigurationDialog(s)
        \/ importFromDialog(s)
        \/ showManageItemsDialog(s)
        \/ showManageItemsAction(s)
        \/ \E direction \in {-1, 1} : moveItem(s, direction)
        \/ deleteItem(s)
        \/ removeFolderGroup(s)
        \/ clearAllItems(s)
        \/ changeFolderColor(s)
        \/ removeItemFromFolder(s)
        \/ \E direction \in {-1, 1} : moveItemInFolder(s, direction)
        \/ addItemToFolder(s)
        \/ showFolderMenu(s)
        \/ showFolderItemsDialog(s)
        \/ showFolderItemsAction(s)
        \/ editItem(s)
        \/ editItemCommand(s)
        \/ editItemIcon(s)
        \/ editItemColor(s)
        \/ editItemUrl(s)

Spec == Init /\ [][Next]_vars

---------------------------------------------------------------------------
(* Properties *)

Cancelled(ans) == \E i \in DOMAIN ans : ans[i] = Undef

Quiet == activated /\ \A s \in Slots : ops[s].pc = "idle"

AddHandlers ==
    {"showAddItemDialog", "addAppItem", "addFileItem", "addFolderItem", "addLinkItem",
     "showAddFolderDialog", "addItemToFolder"}

\* C1: in every add operation (app, file, folder, link, folder-group, item
\* into a folder), a prompt of the chain that is cancelled - the optional
\* title, command, icon and color prompts included - ends the operation
\* with the top-level list, every folder's children and the persisted items
\* as they were.
C1_CancelledAddAborts ==
    [][(last'.act \in AddHandlers /\ Cancelled(last'.ans))
         => (dockItems' = dockItems /\ persisted' = persisted)]_vars

EditHandlers == {"editItem", "editItem.command", "editItem.icon", "editItem.color", "editItem.url"}

\* C2: in editItem, a cancelled prompt (name, title, or the command, icon,
\* color or url prompt of the item's type) leaves the item, the in-memory
\* list and the persisted items as they were.
C2_CancelledEditAborts ==
    [][(last'.act \in EditHandlers /\ Cancelled(last'.ans))
         => (dockItems' = dockItems /\ persisted' = persisted)]_vars

\* C3: never are two operations of the provider (initialize included)
\* suspended at a prompt or at the configuration write at the same time.
C3_OneOperationAtATime ==
    Cardinality({s \in Slots : ops[s].pc # "idle"}) <= 1

TopLevelAdds ==
    {"addAppItem", "addFileItem", "addFolderItem", "addLinkItem", "showAddFolderDialog",
     "importChromeBookmarks"}

UniqueAt(list, k) == \A i \in DOMAIN list : i # k => list[i].id # list[k].id

\* C4: right after an add has inserted its item, the id of the new item
\* differs from the id of every other item of the list it went into (the
\* top-level list, or the children of the folder-group).
C4_NewIdUnique ==
    [][/\ (last'.act \in TopLevelAdds /\ last'.wrote)
            => \A k \in (Len(dockItems) + 1)..Len(dockItems') : UniqueAt(dockItems', k)
       /\ (last'.act = "addItemToFolder" /\ last'.wrote)
            => \A s \in Slots :
                 (ops[s].pc = "addItemToFolder" /\ ops'[s] # ops[s]
                    /\ Attached(dockItems, ops[s].folder))
                 => LET children == Deref(dockItems', ops[s].folder).children
                    IN UniqueAt(children, Len(children))]_vars

\* C5: whenever no operation is in progress, the persisted 'items' value is
\* the in-memory list, the children of every folder-group included.
C5_PersistedIsMemory ==
    Quiet => persisted = Serialize(dockItems)

\* An edit of a stored item has run to its end and nothing is in progress.
C5_Witness ==
    /\ Quiet
    /\ last.done = "completed"
    /\ last.act \in EditHandlers
    /\ \E i \in DOMAIN dockItems : dockItems[i].name = "Notes"

\* C6: after every mutating operation that has run to its end (add, add
\* into a folder, edit, delete, remove from folder, move, move in folder,
\* change color, reset, import), the rendered entries are the projection of
\* the in-memory list as it is now.
C6_RenderedIsProjection ==
    (last.done = "completed" /\ last.act # "initialize")
        => statusBarItems = createDockItems(dockItems, settings)

DefaultIdsInOrder == <<"terminal", "explorer", "git", "extensions">>

\* C7: initialize() with nothing persisted makes the in-memory list the four
\* defaults terminal, explorer, git, extensions, in this order, and persists
\* it; with a non-empty persisted list the in-memory list is the persisted
\* one and nothing is written.
C7_Initialize ==
    [][(~activated /\ activated')
         => IF Len(persisted) = 0
            THEN /\ [i \in DOMAIN dockItems' |-> dockItems'[i].id] = DefaultIdsInOrder
                 /\ \A i \in DOMAIN dockItems' : dockItems'[i].type = "app"
                 /\ persisted' = Serialize(dockItems')
            ELSE /\ Serialize(dockItems') = persisted
                 /\ persisted' = persisted]_vars

\* initialize() has found nothing persisted and has written the defaults.
C7_Witness ==
    /\ last.act = "initialize"
    /\ last.wrote
    /\ Len(persisted) = Len(DefaultIdsInOrder)

\* The list is restored by moveItem(item, +1) then moveItem(item, -1) when
\* both moves are in bounds.
Restores(list, id) ==
    LET down == moveItemList(list, id, 1)
    IN (moveItemOutcome(list, id, 1) = "found" /\ moveItemOutcome(down, id, -1) = "found")
          => moveItemList(down, id, -1) = list

\* C8: moveItem(item, +1) followed by moveItem(item, -1), both in bounds,
\* restores the order of the list, and so does moveItemInFolder on the
\* children of a folder-group: checked for every item of every list the
\* program reaches.
C8_MoveDownThenUpRestores ==
    /\ \A i \in DOMAIN dockItems : Restores(dockItems, dockItems[i].id)
    /\ \A f \in DOMAIN dockItems : \A j \in DOMAIN dockItems[f].children :
          Restores(dockItems[f].children, dockItems[f].children[j].id)

DirectionOf(ans) == IF ans[1] \in {"Move Up", "Move Up in Folder"} THEN -1 ELSE 1

\* The move of id by direction in list would leave the list, or id is not
\* in it.
NoSuchMove(list, id, direction) ==
    \/ \A i \in DOMAIN list : list[i].id # id
    \/ LET i == CHOOSE i \in DOMAIN list :
                  list[i].id = id /\ \A k \in 1..(i - 1) : list[k].id # id
       IN i + direction \notin DOMAIN list

\* The step shows the notice, if the item is there, and does nothing else.
OnlyNotice(s, present, notice) ==
    /\ dockItems' = dockItems
    /\ persisted' = persisted
    /\ statusBarItems' = statusBarItems
    /\ ops'[s] = Idle
    /\ ~last'.wrote
    /\ last'.notice = IF present THEN notice ELSE Undef

\* C9: moveItem / moveItemInFolder below index 0 or past the last index
\* changes nothing (order, persisted items, rendered entries) and only shows
\* a notice; a move of an id that is not in the list changes nothing either.
C9_MoveOutOfBoundsIsNoOp ==
    [][\A s \in Slots :
         /\ (last'.act = "moveItem" /\ ops[s].pc = "showManageItemsDialog" /\ ops'[s] # ops[s]
               /\ NoSuchMove(dockItems, ops[s].id, DirectionOf(last'.ans)))
              => OnlyNotice(s, \E i \in DOMAIN dockItems : dockItems[i].id = ops[s].id,
                            "Cannot move item in that direction.")
         /\ (last'.act = "moveItemInFolder" /\ ops'[s] # ops[s]
               /\ ops[s].pc \in {"showManageItemsDialog", "showFolderItemsDialog"}
               /\ Attached(dockItems, ops[s].folder)
               /\ NoSuchMove(Deref(dockItems, ops[s].folder).children, ops[s].id,
                             DirectionOf(last'.ans)))
              => OnlyNotice(s, \E j \in DOMAIN Deref(dockItems, ops[s].folder).children :
                                  Deref(dockItems, ops[s].folder).children[j].id = ops[s].id,
                            "Cannot move item in that direction within the folder.")]_vars

\* A move past an end of the top-level list has shown its notice.
C9_Witness ==
    /\ last.act = "moveItem"
    /\ last.done = "returned"
    /\ last.notice = "Cannot move item in that direction."

IdsIn(list) ==
    {list[i].id : i \in DOMAIN list}
    \cup UNION {{list[i].children[j].id : j \in DOMAIN list[i].children} : i \in DOMAIN list}

\* C10: after the confirmed delete of a folder-group, neither its id nor the
\* id of any of its children occurs in the top-level list or in the children
\* of a remaining folder-group: checked for every folder-group of every list
\* the program reaches.
C10_DeleteFolderRemovesIds ==
    \A i \in DOMAIN dockItems :
        dockItems[i].type = "folder-group"
        => LET folder == dockItems[i]
               gone == {folder.id} \cup {folder.children[j].id : j \in DOMAIN folder.children}
           IN gone \cap IdsIn(deleteItemList(dockItems, folder.id)) = {}

\* The list without its i-th item, the others in their order.
Without(list, i) ==
    [k \in 1..(Len(list) - 1) |-> IF k < i THEN list[k] ELSE list[k + 1]]

HasId(list, id) == \E i \in DOMAIN list : list[i].id = id

\* list2 is list1 less exactly one item, which carries id.
RemovedOne(list1, list2, id) ==
    \E i \in DOMAIN list1 : list1[i].id = id /\ list2 = Without(list1, i)

\* C11: a confirmed deleteItem / removeItem / removeItemFromFolder removes
\* exactly one item, carrying the given id, from its list (the top-level
\* list, or the children of the folder) and keeps the other items in their
\* order; with an id that is not in the list, or an answer other than 'Yes',
\* the list and the persisted items stay as they are.  (removeItem has no
\* caller; its splice is stated for every item of the list.)
C11_DeleteRemovesExactlyOne ==
    [][/\ \A s \in Slots :
            (ops[s].pc = "deleteItem" /\ last'.act = "deleteItem" /\ ops'[s] # ops[s])
            => IF last'.ans = <<"Yes">> /\ HasId(dockItems, ops[s].id)
               THEN RemovedOne(dockItems, dockItems', ops[s].id)
               ELSE dockItems' = dockItems /\ persisted' = persisted
       /\ \A s \in Slots :
            (ops[s].pc = "removeItemFromFolder" /\ last'.act = "removeItemFromFolder"
               /\ ops'[s] # ops[s] /\ Attached(dockItems, ops[s].folder))
            => LET children == Deref(dockItems, ops[s].folder).children
               IN IF last'.ans = <<"Yes">> /\ HasId(children, ops[s].id)
                  THEN \E f \in DOMAIN dockItems :
                         /\ dockItems[f].ref = ops[s].folder
                         /\ RemovedOne(children, dockItems'[f].children, ops[s].id)
                         /\ dockItems' = [dockItems EXCEPT ![f].children = dockItems'[f].children]
                  ELSE dockItems' = dockItems /\ persisted' = persisted
       /\ \A i \in DOMAIN dockItems :
            RemovedOne(dockItems, deleteItemList(dockItems, dockItems[i].id), dockItems[i].id)]_vars

\* A confirmed deleteItem has removed an item and left others in the list.
C11_Witness ==
    /\ last.act = "deleteItem"
    /\ last.wrote
    /\ Len(dockItems) > 0

\* C12: the reset confirmed with 'Yes' makes the top-level list, whatever it
\* was, the four default items in their order and nothing else, and
\* persists it; not confirmed, it leaves the list and the persisted items
\* as they are.
C12_ResetYieldsDefaults ==
    [][\A s \in Slots :
         (ops[s].pc = "clearAllItems" /\ last'.act = "clearAllItems" /\ ops'[s] # ops[s])
         => IF last'.ans = <<"Yes">>
            THEN /\ [i \in DOMAIN dockItems' |-> dockItems'[i].id] = DefaultIdsInOrder
                 /\ \A i \in DOMAIN dockItems' :
                      dockItems'[i].type = "app" /\ ~dockItems'[i].hasChildren
                 /\ persisted' = Serialize(dockItems')
            ELSE dockItems' = dockItems /\ persisted' = persisted]_vars

\* A confirmed reset has replaced a list that was not the defaults (fewer
\* objects than the defaults had been created before the reset).
C12_Witness ==
    /\ last.act = "clearAllItems"
    /\ last.wrote
    /\ alloc.next - 1 < 2 * Len(DefaultIdsInOrder)
    /\ Len(dockItems) = Len(DefaultIdsInOrder)

UniqueIds(list) == \A i, j \in DOMAIN list : i # j => list[i].id # list[j].id

RECURSIVE AfterMoves(_, _, _)
\* The list after moveItem for id by each direction of moves in turn.
AfterMoves(list, id, moves) ==
    IF Len(moves) = 0 THEN list
    ELSE AfterMoves(moveItemList(list, id, Head(moves)), id, Tail(moves))

RECURSIVE MovesInBounds(_, _, _)
MovesInBounds(list, id, moves) ==
    \/ Len(moves) = 0
    \/ /\ moveItemOutcome(list, id, Head(moves)) = "found"
       /\ MovesInBounds(moveItemList(list, id, Head(moves)), id, Tail(moves))

MoveSequences == {<<>>, <<-1>>, <<-1, -1>>, <<-1, 1>>}

\* The items addAppItem and addLinkItem can build now.
NewItemsNow ==
    {AppItem(alloc.next, clock, a[1], a[2], a[3], a[4]) : a \in {b \in AppAnswers : Truthy(b[1])}}
    \cup {LinkItem(alloc.next, clock, a[1], a[2], a[3]) :
             a \in {b \in LinkAnswers : Truthy(b[1]) /\ Truthy(b[2])}}

\* C13: on a list with unique ids, adding an item (appended last), moving
\* it by in-bounds moves and deleting it by id gives back the list as it
\* was before the add: checked for every list the program reaches, every
\* item an add can build there and the move sequences of MoveSequences.
C13_AddMoveDeleteRestores ==
    UniqueIds(dockItems)
    => \A new \in NewItemsNow : \A moves \in MoveSequences :
         LET added == Append(dockItems, new)
         IN MovesInBounds(added, new.id, moves)
            => Serialize(deleteItemList(AfterMoves(added, new.id, moves), new.id))
                 = Serialize(dockItems)

RECURSIVE UrlNodes(_)
\* The url-typed nodes of a list of nodes and of the folders in it, at any
\* depth, in depth-first order.
UrlNodes(nodes) ==
    IF Len(nodes) = 0 THEN <<>>
    ELSE (IF Head(nodes).type = "url" THEN <<Head(nodes)>>
          ELSE IF Head(nodes).type = "folder" THEN UrlNodes(Head(nodes).children)
          ELSE <<>>)
         \o UrlNodes(Tail(nodes))

RECURSIVE UrlNodesOfRoots(_)
UrlNodesOfRoots(roots) ==
    IF Len(roots) = 0 THEN <<>> ELSE UrlNodes(Head(roots)) \o UrlNodesOfRoots(Tail(roots))

RECURSIVE HasNullNode(_)
HasNullNode(nodes) ==
    \E k \in DOMAIN nodes :
        \/ nodes[k].type = "null"
        \/ nodes[k].type = "folder" /\ HasNullNode(nodes[k].children)

\* The file can be read and its tree walked to the end.
Walkable(file) ==
    file.state = "ok" /\ \A r \in DOMAIN file.roots : ~HasNullNode(file.roots[r])

\* The step is importChromeBookmarks reading its file (the one of last'.ans).
ImportStep == last'.act = "importChromeBookmarks" /\ Len(last'.ans) = 1 /\ last' # last

\* C14: an import from a tree without a url-typed node at any depth reports
\* that nothing was imported and leaves the list, the persisted items and
\* the rendered entries as they are.
C14_ImportWithoutUrls ==
    [][(ImportStep /\ Walkable(last'.ans[1])
          /\ Len(UrlNodesOfRoots(last'.ans[1].roots)) = 0)
         => /\ dockItems' = dockItems
            /\ persisted' = persisted
            /\ statusBarItems' = statusBarItems
            /\ last'.done = "returned"
            /\ last'.notice = "No bookmarks found to import."]_vars

\* An import from a tree of folders and separators only has ended.
C14_Witness ==
    /\ last.act = "importChromeBookmarks"
    /\ last.notice = "No bookmarks found to import."
    /\ Len(last.ans[1].roots) > 0

\* C15: an import takes every url-typed node of the tree, at any depth: the
\* count it reports is the number of url-typed nodes, each is one top-level
\* link with the name and url of its node, appended after the items in the
\* list in depth-first order, and the items in the list stay as they are.
C15_ImportFlattensUrls ==
    [][(ImportStep /\ Walkable(last'.ans[1])
          /\ Len(UrlNodesOfRoots(last'.ans[1].roots)) > 0)
         => LET urls == UrlNodesOfRoots(last'.ans[1].roots)
                n == Len(dockItems)
            IN /\ Len(dockItems') = n + Len(urls)
               /\ SubSeq(dockItems', 1, n) = dockItems
               /\ \A k \in DOMAIN urls :
                    /\ dockItems'[n + k].type = "link"
                    /\ dockItems'[n + k].name = urls[k].name
                    /\ dockItems'[n + k].url = urls[k].url
                    /\ ~dockItems'[n + k].hasChildren
               /\ persisted' = Serialize(dockItems')
               /\ \E s \in Slots :
                    /\ ops'[s].handler = "importChromeBookmarks"
                    /\ ops'[s].notice = "Imported " \o ToString(Len(urls))]_vars

\* An import has appended the url node three folders deep after another.
C15_Witness ==
    /\ last.act = "importChromeBookmarks"
    /\ last.wrote
    /\ Len(dockItems) > 1
    /\ dockItems[Len(dockItems)].url = "https://b.test"
    /\ dockItems[Len(dockItems) - 1].url = "https://a.test"

\* C16: with the bookmark file missing, unreadable or malformed, or with a
\* failure part-way through the walk of the tree, the import shows a
\* notice, imports nothing, leaves the in-memory list and the persisted
\* items as they are, and returns normally.
C16_ImportFailureIsNoOp ==
    [][(ImportStep /\ ~Walkable(last'.ans[1]))
         => /\ dockItems' = dockItems
            /\ persisted' = persisted
            /\ last'.done = "returned"
            /\ last'.notice = IF last'.ans[1].state = "missing"
                              THEN "Chrome bookmarks file not found"
                              ELSE "Failed to import Chrome bookmarks"]_vars

\* An import has failed at a null node after a url node was parsed.
C16_Witness ==
    /\ last.act = "importChromeBookmarks"
    /\ last.notice = "Failed to import Chrome bookmarks"
    /\ last.ans[1].state = "ok"

\* C17 as stated: after any sequence of operations, a restart (a new
\* provider whose initialize() reads the persisted items) gives an
\* in-memory list equal to the list before the restart: order, fields of
\* every item and children arrays.
C17_RoundTrip ==
    Quiet => Serialize(loadConfiguration(persisted, 0)) = Serialize(dockItems)

\* C17 amended: the same for every list that is not empty (an empty list
\* comes back as the four defaults).
C17_RoundTripNonEmpty ==
    (Quiet /\ Len(dockItems) > 0)
        => Serialize(loadConfiguration(persisted, 0)) = Serialize(dockItems)

\* An item was added to a folder-group that had a child, and nothing is in
\* progress.
C17_Witness ==
    /\ Quiet
    /\ last.act = "addItemToFolder"
    /\ last.done = "completed"
    /\ \E f \in DOMAIN dockItems : Len(dockItems[f].children) > 1

\* C18: addItemToFolder rejects a target that is not a folder-group: no
\* child is attached and the list (hence what is saved) stays as it was;
\* on a folder-group the new item becomes the last child and nothing else
\* changes.  Stated of the push of addItemToFolder on every top-level item
\* of every list the program reaches.
C18_AddToFolderChecksTarget ==
    \A i \in DOMAIN dockItems : \A new \in NewItemsNow :
        LET after == addItemToFolderList(dockItems, dockItems[i].ref, new)
        IN IF dockItems[i].type = "folder-group"
           THEN /\ Len(after) = Len(dockItems)
                /\ after[i].children = Append(dockItems[i].children, new)
                /\ \A k \in DOMAIN dockItems : k # i => after[k] = dockItems[k]
           ELSE /\ after = dockItems
                /\ Serialize(after) = Serialize(dockItems)

\* C19: every child of a folder-group, in the list and in the stored
\* configuration, has type app, file, folder or link: no folder-group is
\* nested in another.
C19_NoNestedFolderGroups ==
    /\ \A i \in DOMAIN dockItems : \A j \in DOMAIN dockItems[i].children :
           dockItems[i].children[j].type \in ChildTypes
    /\ \A i \in DOMAIN persisted : \A j \in DOMAIN persisted[i].children :
           persisted[i].children[j].type \in ChildTypes

\* A computer folder has been added to a folder-group as its last child.
C19_Witness ==
    /\ last.act = "addItemToFolder"
    /\ last.wrote
    /\ \E i \in DOMAIN dockItems :
           /\ dockItems[i].type = "folder-group"
           /\ Len(dockItems[i].children) > 0
           /\ dockItems[i].children[Len(dockItems[i].children)].type = "folder"

TypePrompts == {"editItem.command", "editItem.icon", "editItem.color", "editItem.url"}

FieldOf(item, prompt) ==
    CASE prompt = "editItem.command" -> item.command
      [] prompt = "editItem.icon" -> item.icon
      [] prompt = "editItem.color" -> item.color
      [] prompt = "editItem.url" -> item.url

\* The step of slot s that answers one of the type prompts of editItem for
\* an item that is in the list.
TypePromptStep(s) ==
    /\ ops[s].pc \in TypePrompts
    /\ ops'[s] # ops[s]
    /\ last'.act = ops[s].pc
    /\ Len(last'.ans) = 1
    /\ Attached(dockItems, ops[s].item)
    /\ Attached(dockItems', ops[s].item)

\* C20 as stated: in editItem the command and icon of an app, the color of
\* a folder-group and the url of a link change only when a defined,
\* non-empty value is supplied; an empty value leaves the previous value.
C20_EmptyEditIsNoOp ==
    [][\A s \in Slots :
        TypePromptStep(s) =>
            LET old == FieldOf(Deref(dockItems, ops[s].item), ops[s].pc)
                new == FieldOf(Deref(dockItems', ops[s].item), ops[s].pc)
            IN new = IF Truthy(last'.ans[1]) THEN last'.ans[1] ELSE old]_vars

\* C20 amended: a cancelled prompt leaves the field; every answer, the
\* empty one too, is stored (an empty command, icon or url becomes the
\* empty string, the colour choice 'Default' removes the color).
C20_AnsweredEditIsStored ==
    [][\A s \in Slots :
        TypePromptStep(s) =>
            LET old == FieldOf(Deref(dockItems, ops[s].item), ops[s].pc)
                new == FieldOf(Deref(dockItems', ops[s].item), ops[s].pc)
                ans == last'.ans[1]
            IN new = CASE ans = Undef -> old
                       [] ans = "" /\ ops[s].pc = "editItem.color" -> Undef
                       [] OTHER -> ans]_vars

\* The url box of the stored link was emptied and the link now has the
\* empty url.
C20_Witness ==
    /\ last.act = "editItem.url"
    /\ last.ans = <<"">>
    /\ last.wrote
    /\ \E i \in DOMAIN dockItems : \E j \in DOMAIN dockItems[i].children :
           dockItems[i].children[j].type = "link" /\ dockItems[i].children[j].url = ""

\* The answers of an add operation fail its validation: no name for an app
\* or a folder-group, no picked path for a file or folder, no url or no
\* name for a link; in addItemToFolder the answers follow the type pick.
ValidationFails(act, ans) ==
    CASE act \in {"addAppItem", "addFileItem", "addFolderItem", "showAddFolderDialog"} ->
           Len(ans) >= 1 /\ ~Truthy(ans[1])
      [] act = "addLinkItem" ->
           Len(ans) >= 2 /\ (~Truthy(ans[1]) \/ ~Truthy(ans[2]))
      [] act = "addItemToFolder" ->
           /\ Len(ans) >= 2
           /\ \/ ~Truthy(ans[2])
              \/ ans[1] = "Web Link" /\ ~Truthy(ans[3])
      [] OTHER -> FALSE

\* C21: an add whose required answer is missing or empty (name of an app,
\* picked path of a file or folder, url or name of a link, name of a
\* folder-group), at top level or inside a folder-group, ends silently:
\* the list, the persisted items and the rendered entries stay as they
\* were and no notice is shown.
C21_ValidationFailureAborts ==
    [][ValidationFails(last'.act, last'.ans)
         => /\ dockItems' = dockItems
            /\ persisted' = persisted
            /\ statusBarItems' = statusBarItems
            /\ last'.notice = Undef
            /\ last'.done = "returned"]_vars

\* Inside a folder-group a link was given a url and an empty name, and the
\* add has returned.
C21_Witness ==
    /\ last.act = "addItemToFolder"
    /\ Len(last.ans) = 4
    /\ last.ans[1] = "Web Link"
    /\ last.ans[2] = "https://x.test"
    /\ last.ans[3] = ""
    /\ last.done = "returned"

TopIds(list) == {list[i].id : i \in DOMAIN list}

MaxItemsValues == {-1, 0, 2, 10}

Min(a, b) == IF a < b THEN a ELSE b

\* C23: for every list and every configured maximum N, createDockItems
\* renders the first min(N, length) items in list order, then the one add
\* button, and never more than N item entries.  Stated of the rendering of
\* every list the program reaches, under each value of the setting.
C23_RendersFirstN ==
    (activated /\ Len(dockItems) > 0) =>
        \A n \in MaxItemsValues :
            LET cfg == [settings EXCEPT !.maxItems = n]
                bar == createDockItems(dockItems, cfg)
                shown == Len(bar) - 1
            IN /\ shown = Min(n, Len(dockItems))
               /\ shown <= n
               /\ \A k \in 1..shown : bar[k] = StatusBarItem(dockItems[k], k - 1, cfg)
               /\ bar[Len(bar)] = addButton

\* A Bookmarks file with as many bookmarks as there are priorities between
\* that of the first entry and that of the add button.
LargeBookmarks ==
    LET folder == FolderNode("ten", [k \in 1..10 |-> UrlNode("A", "https://a.test")])
        root == [k \in 1..10 |-> folder]
    IN [state |-> "ok",
        roots |-> [k \in 1..((FirstPriority - AddButtonPriority) \div 100) |-> root]]

\* The entries of a rendering are in display order: the item entries have
\* strictly decreasing priorities and the last entry, the add button, has a
\* priority strictly below each of them.
AddButtonTrails(bar) ==
    /\ \A j, k \in 1..(Len(bar) - 1) : j < k => bar[j].priority > bar[k].priority
    /\ \A k \in 1..(Len(bar) - 1) : bar[k].priority > bar[Len(bar)].priority

\* C24: whatever the maximum N and the length of the list, the rendered
\* item entries have strictly decreasing display priority in list order and
\* the add button's priority is strictly lower than that of each of them.
\* Stated of what is on screen and of the rendering of the list as it is
\* after LargeBookmarks is imported, with a maximum that shows every item.
C24_AddButtonIsTrailing ==
    (activated /\ Len(dockItems) > 0) =>
        LET list == dockItems \o parseChromeBookmarks(LargeBookmarks, clock, alloc.next - 1)
        IN /\ Len(statusBarItems) > 0 => AddButtonTrails(statusBarItems)
           /\ AddButtonTrails(createDockItems(list, [settings EXCEPT !.maxItems = Len(list)]))

\* The click action of an item: the folder menu with the item for a
\* folder-group; the command of an app, the path of a file (opened), the
\* path of a folder (opened as workspace), the url of a link (opened); no
\* action when that field is absent or empty.
ClickAction(item) ==
    CASE item.type = "folder-group" ->
            [command |-> "vscode-dock.showFolderMenu", title |-> item.name,
             argument |-> Undef, item |-> item.ref, id |-> item.id]
      [] item.type = "app" /\ Truthy(item.command) ->
            [NoCommand EXCEPT !.command = item.command, !.title = item.name]
      [] item.type = "file" /\ Truthy(item.path) ->
            [NoCommand EXCEPT !.command = "vscode.open", !.title = item.name,
                              !.argument = item.path]
      [] item.type = "folder" /\ Truthy(item.path) ->
            [NoCommand EXCEPT !.command = "vscode.openFolder", !.title = item.name,
                              !.argument = item.path]
      [] item.type = "link" /\ Truthy(item.url) ->
            [NoCommand EXCEPT !.command = "vscode.open", !.title = item.name,
                              !.argument = item.url]
      [] OTHER -> NoCommand

\* C25: the entry createDockItems makes of an item has the click action of
\* the item: every folder-group opens the folder menu with itself, the
\* other types run their command or open their path or url, and an item
\* without that field has no click action.  Stated of the rendering of every
\* list the program reaches.
C25_ClickActions ==
    activated =>
        LET bar == createDockItems(dockItems, settings)
        IN \A k \in 1..(Len(bar) - 1) : bar[k].command = ClickAction(dockItems[k])

\* Names of 4, 20 and 21 characters.
LabelNames == {"Docs", "Twenty characters ok", "Twenty-one characters"}

\* The items whose labels are looked at: the top-level items of the list,
\* and apps and folder-groups as addAppItem and showAddFolderDialog build
\* them, with and without an icon and a color.
LabelItems ==
    {dockItems[i] : i \in DOMAIN dockItems}
    \cup {AppItem(0, 0, n, Undef, Undef, i) : n \in LabelNames, i \in {Undef, "", "$(star)"}}
    \cup {FolderGroupItem(0, 0, n, Undef, c) : n \in LabelNames, c \in {"", "#007ACC"}}

LabelSettings ==
    {[settings EXCEPT !.showIcons = i, !.showTitles = t] : i \in BOOLEAN, t \in BOOLEAN}

\* An absent icon is the empty token.
IconToken(item) == IF Truthy(item.icon) THEN item.icon ELSE ""

\* The icon, after the color glyph if the item has a color, and the name
\* (if there is one) after it when titles are shown and the name has at
\* most 20 characters.
IconLabel(item, cfg) ==
    (IF Truthy(item.color) THEN getColorIcon(item.color) \o " " ELSE "")
    \o IconToken(item)
    \o (IF cfg.showTitles /\ Truthy(item.name) /\ Len(item.name) <= MaxNameLength
        THEN " " \o item.name ELSE "")

\* C26 as stated: with icons enabled the label is the icon token (after
\* the color glyph when the item has a color), followed by the name when
\* titles are enabled and the name has at most 20 characters; with icons
\* disabled it is the bare name.
C26_Label ==
    activated =>
        \A item \in LabelItems : \A cfg \in LabelSettings :
            displayText(item, cfg) = IF cfg.showIcons THEN IconLabel(item, cfg) ELSE item.name

\* C26 amended: the same for an item that has an icon; an item without an
\* icon has the bare name as its label, whatever the flags.
C26_LabelOfIconOrName ==
    activated =>
        \A item \in LabelItems : \A cfg \in LabelSettings :
            displayText(item, cfg) = IF cfg.showIcons /\ Truthy(item.icon)
                                     THEN IconLabel(item, cfg)
                                     ELSE item.name

\* An app that was added without an icon is on screen under its bare name.
C26_Witness ==
    /\ last.rendered
    /\ \E k \in 1..(Len(statusBarItems) - 1) :
          /\ k <= Len(dockItems)
          /\ dockItems[k].type = "app"
          /\ ~Truthy(dockItems[k].icon)
          /\ statusBarItems[k].text = dockItems[k].name

\* C27: the entries on the status bar (created and not disposed) are
\* exactly the entries of the most recent rendering, each once: no entry of
\* an earlier rendering is left; right after a rendering their number is
\* the number of rendered items plus one.
C27_OnlyLastRenderingVisible ==
    /\ visible = BagOfEntries(statusBarItems)
    /\ BagCardinality(visible) = Len(statusBarItems)
    /\ last.rendered =>
          BagCardinality(visible) = SliceEnd(Len(dockItems), settings.maxItems) + 1

\* Every operation has ended, the last one with a rendering, and items
\* were added since the list was loaded: the list has been rendered more
\* than once, and its six entries and the add button are on the bar.
C27_Witness ==
    /\ Quiet
    /\ last.rendered
    /\ Len(dockItems) = Cardinality(DefaultItemIds) + 2
    /\ BagCardinality(visible) = Len(dockItems) + 1

\* after is list with the item at some index i that carries id and the item
\* at i + d exchanged, everything else (the children of every item
\* included) as it was.
SwappedAdjacent(list, after, id, d) ==
    \E i \in DOMAIN list :
        /\ list[i].id = id
        /\ i + d \in DOMAIN list
        /\ after = Swap(list, i, i + d)

\* C28: a move that is carried out (moveItem with direction -1 or +1)
\* exchanges the items at two adjacent indexes i and i + d of the top-level
\* list, i holding the moved id: every other position, and with it every
\* folder-group's children, is unchanged.  moveItemInFolder does the same
\* in the children of the folder-group it is given and changes nothing
\* else in the list.
C28_MoveSwapsAdjacent ==
    [][\A s \in Slots :
        /\ (/\ ops[s].pc = "showManageItemsDialog"
            /\ ops'[s] # ops[s]
            /\ last'.act = "moveItem"
            /\ last'.wrote)
             => SwappedAdjacent(dockItems, dockItems', ops[s].id, DirectionOf(last'.ans))
        /\ (/\ ops[s].pc \in {"showManageItemsDialog", "showFolderItemsDialog"}
            /\ ops'[s] # ops[s]
            /\ last'.act = "moveItemInFolder"
            /\ last'.wrote
            /\ Attached(dockItems, ops[s].folder))
             => \E f \in DOMAIN dockItems :
                   /\ dockItems[f].ref = ops[s].folder
                   /\ Len(dockItems') = Len(dockItems)
                   /\ \A k \in DOMAIN dockItems : k # f => dockItems'[k] = dockItems[k]
                   /\ [dockItems'[f] EXCEPT !.children = <<>>]
                        = [dockItems[f] EXCEPT !.children = <<>>]
                   /\ SwappedAdjacent(dockItems[f].children, dockItems'[f].children,
                                      ops[s].id, DirectionOf(last'.ans))]_vars

\* A top-level item has been moved in a list that holds a folder-group
\* with a child.
C28_Witness ==
    /\ last.act = "moveItem"
    /\ last.wrote
    /\ \E i \in DOMAIN dockItems :
          dockItems[i].type = "folder-group" /\ Len(dockItems[i].children) > 0

\* The object numbered r is a child of a folder-group of the list, and the
\* stored list has a child with its id in the folder-group at that place.
StoredChild(list, stored, r) ==
    \E f \in DOMAIN list :
        /\ list[f].type = "folder-group"
        /\ f \in DOMAIN stored
        /\ \E j \in DOMAIN list[f].children :
              /\ list[f].children[j].ref = r
              /\ j \in DOMAIN stored[f].children
              /\ stored[f].children[j].id = list[f].children[j].id

\* C29: when addItemToFolder has pushed its new item and saved (the step
\* after which it shows 'Added ... to ... folder'), the new item is a child
\* of a folder-group of the top-level list and is in the persisted items,
\* whatever other operations have completed while its prompts were open.
C29_AddedChildIsStored ==
    [][\A s \in Slots :
        (/\ ops[s].pc = "addItemToFolder"
         /\ ops'[s].pc = "saveConfiguration"
         /\ last'.act = "addItemToFolder"
         /\ last'.wrote)
          => StoredChild(dockItems', persisted', alloc.next)]_vars

\* C30: every item of the top-level list and every child of a folder-group
\* has a non-empty name, in every state the program reaches.
C30_NamesNonEmpty ==
    \A i \in DOMAIN dockItems :
        /\ Truthy(dockItems[i].name)
        /\ \A j \in DOMAIN dockItems[i].children : Truthy(dockItems[i].children[j].name)

====
